---- MODULE Spec2Model ----
(***************************************************************************)
(* Model of the Gemini-driven incident commander                           *)
(* (agents/gemini_orchestrator.py, agents/web_ui.py).                      *)
(*                                                                         *)
(* One request is one run of IncidentCommander.decide_and_execute: the     *)
(* resolve-phase model call, the loop over decision["tools_to_use"], the   *)
(* summarize-phase model call and the return of the report.  The model     *)
(* call, the store and the reference dataset are external: their answers   *)
(* are drawn nondeterministically.  Values that come from the model's      *)
(* JSON answer are kept as tagged JSON values so that Python's behaviour   *)
(* on each JSON type (hashable or not, mapping or not, iterable or not)    *)
(* is decided the way the interpreter decides it.                          *)
(*                                                                         *)
(* Spec runs one request at a time (the interactive loop), SpecWeb two     *)
(* side by side on the shared commander (web_ui.py).  SpecStore gives the  *)
(* app-logs index contents and evaluates the compiled error-spike query on *)
(* them; SpecNotifier classifies a summary text by severity.               *)
(***************************************************************************)
EXTENDS Integers, Sequences, FiniteSets, Bags, TLC

(***************************************************************************)
(* Bounds of the exploration.                                              *)
(***************************************************************************)
\* longest tools_to_use list the model answer may carry
MaxTools == 2
\* most rows an aggregation query returns
MaxRows == 1
\* most copies of one document indexed one at a time
MaxEvents == 1
\* most words of a summary handed to the notifier
MaxWords == 3

(***************************************************************************)
(* JSON values as json.loads produces them.                                *)
(***************************************************************************)
JNull == [t |-> "null"]
JNum(n) == [t |-> "num", n |-> n]
JStr(s) == [t |-> "str", s |-> s]
JArr(a) == [t |-> "arr", a |-> a]
JObj(o) == [t |-> "obj", o |-> o]

\* the empty Python dict {}
EmptyDict == [k \in {} |-> JNull]

\* dict.get(key, default) on a Python dict held as a function
DictGet(d, key, default) == IF key \in DOMAIN d THEN d[key] ELSE default

\* Python can hash every JSON value except lists and dicts
Hashable(v) == v.t \notin {"arr", "obj"}

\* only a dict has .get and can be unpacked with **
IsDict(v) == v.t = "obj"

\* what a for loop can iterate: a list, or a string character by character
Iterable(v) == v.t \in {"arr", "str"}

\* the single-character strings a Python string iterates into
Chars(s) ==
  CASE s = "detect_errors" -> <<JStr("d"), JStr("e"), JStr("t"), JStr("e"), JStr("c"), JStr("t"),
                                JStr("_"), JStr("e"), JStr("r"), JStr("r"), JStr("o"), JStr("r"), JStr("s")>>
    [] OTHER -> <<>>

\* the sequence of items a for loop visits
Iterate(v) == IF v.t = "arr" THEN v.a ELSE Chars(v.s)

(***************************************************************************)
(* The dispatch table and the signatures of the tool methods.              *)
(***************************************************************************)
tools == {"detect_errors", "detect_metrics", "analyze_incident", "search_runbook"}

\* keyword parameters each tool method accepts
ParamNames ==
  [detect_errors    |-> {"time_window", "threshold"},
   detect_metrics   |-> {"time_window"},
   analyze_incident |-> {"time_window"},
   search_runbook   |-> {"search_term"}]

\* parameters declared without a default
RequiredParams ==
  [detect_errors    |-> {},
   detect_metrics   |-> {},
   analyze_incident |-> {},
   search_runbook   |-> {"search_term"}]

\* self.tools[name](**params) binds: no unexpected keyword, no missing argument
BindsOk(name, params) ==
  /\ DOMAIN params \subseteq ParamNames[name]
  /\ RequiredParams[name] \subseteq DOMAIN params

(***************************************************************************)
(* Time-window normalisation, the same table in the three query tools.     *)
(***************************************************************************)
time_map ==
  [k \in {"1 hour", "30 minutes", "24 hours", "1h", "30m"} |->
     CASE k = "1 hour"     -> "1h"
       [] k = "30 minutes" -> "30m"
       [] k = "24 hours"   -> "24h"
       [] k = "1h"         -> "1h"
       [] k = "30m"        -> "30m"]

\* time_map.get(time_window, "1h") for a hashable time_window
esql_time(time_window) ==
  IF time_window.t = "str" /\ time_window.s \in DOMAIN time_map
  THEN time_map[time_window.s]
  ELSE "1h"

(***************************************************************************)
(* Outcomes of a call: a returned value or a raised exception.             *)
(***************************************************************************)
Returned(v) == [raised |-> FALSE, value |-> v]
Raised(type, line) == [raised |-> TRUE, exc |-> [type |-> type, line |-> line]]

(***************************************************************************)
(* The event store and the reference dataset (external).                   *)
(***************************************************************************)
\* the reference dataset as scripts/data/create_service_inventory.py loads it
SERVICES ==
  {[service_name |-> "api-gateway", pagerduty_service_id |-> "PD-API-GATEWAY", team |-> "platform",
    oncall_slack_channel |-> "#oncall-platform", criticality |-> "high"],
   [service_name |-> "payment-service", pagerduty_service_id |-> "PD-PAYMENTS", team |-> "payments",
    oncall_slack_channel |-> "#oncall-payments", criticality |-> "critical"],
   [service_name |-> "user-service", pagerduty_service_id |-> "PD-USERS", team |-> "identity",
    oncall_slack_channel |-> "#oncall-identity", criticality |-> "high"],
   [service_name |-> "auth-service", pagerduty_service_id |-> "PD-AUTH", team |-> "identity",
    oncall_slack_channel |-> "#oncall-identity", criticality |-> "critical"],
   [service_name |-> "order-service", pagerduty_service_id |-> "PD-ORDERS", team |-> "commerce",
    oncall_slack_channel |-> "#oncall-commerce", criticality |-> "high"]}

\* a store call that raised (connectivity, timeout, rejected query)
StoreFailure == [raised |-> TRUE, error |-> "ConnectionError"]

\* columns of STATS ... BY: the aggregates first, then the grouping keys
ErrorSpikeColumns == <<"error_count", "service_name", "error_code">>
MetricColumns == <<"avg_value", "max_value", "count", "service_name", "metric_name">>
IncidentColumns ==
  <<"error_count", "first_seen", "last_seen", "affected_hosts", "service_name", "error_code">>

\* groups the store can hold for each aggregation, with the place SORT ... DESC
\* gives each (cells as the store prints them)
ErrorSpikeRows == <<<<"50", "payment-service", "DatabaseConnectionError">>>>
MetricRows == <<<<"97.0", "99.0", "20", "payment-service", "cpu_usage">>>>
IncidentRows ==
  <<<<"50", "t0", "t1", "5", "payment-service", "DatabaseConnectionError">>,
    <<"7", "t0", "t1", "1", "legacy-batch", "OutOfMemoryError">>>>

\* sequences of at most n elements of S
SeqUpTo(S, n) == UNION {[1..k -> S] : k \in 0..n}

\* the result tables of at most MaxRows groups: one row per group, sorted
Tables(rows) ==
  {[i \in 1..Len(pick) |-> rows[pick[i]]] :
     pick \in {p \in SeqUpTo(1..Len(rows), MaxRows) :
                 \A i \in 1..(Len(p) - 1) : p[i] < p[i + 1]}}

\* answers of es.esql.query for the groups of a table
EsqlAnswers(rows, columns) ==
  {StoreFailure} \cup
  {[raised |-> FALSE, values |-> v, columns |-> columns] : v \in Tables(rows)}

\* the sequence holding the elements of a set, in the store's order
RECURSIVE SetToSeq(_)
SetToSeq(S) ==
  IF S = {} THEN <<>>
  ELSE LET x == CHOOSE y \in S : TRUE IN <<x>> \o SetToSeq(S \ {x})

\* es.search on service-inventory: the term query is an exact match
InventoryHits(service_name) ==
  SetToSeq({s \in SERVICES : s.service_name = service_name})

\* answers of the reference lookup for one key
LookupAnswers(service_name) ==
  {StoreFailure, [raised |-> FALSE, hits |-> InventoryHits(service_name)]}

\* a runbook as scripts/data/create_runbooks.py indexes it, with its score
RunbookHit ==
  [_source |-> [title |-> "Database Connection Failure Recovery",
                error_pattern |-> "DatabaseConnectionError Unable to connect connection pool exhausted",
                solution |-> "solution-text",
                commands |-> "commands-list",
                service |-> "payment-service"],
   _score |-> "9.1"]

\* answers of es.search on runbooks (size 3)
RunbookAnswers ==
  {StoreFailure} \cup {[raised |-> FALSE, hits |-> h] : h \in {<<>>, <<RunbookHit>>}}

(***************************************************************************)
(* The query catalog: what each tool compiles and sends to the store.      *)
(***************************************************************************)
\* the text json.dumps or an f-string produces for a value, kept as a tagged copy
Rendered(v) == [text_of |-> v]

ErrorSpikeQuery(time_window, threshold) ==
  [call |-> "esql", source |-> "app-logs", window |-> esql_time(time_window),
   filter |-> "severity IN (ERROR, CRITICAL)", by |-> <<"service_name", "error_code">>,
   having |-> <<"error_count >", Rendered(threshold)>>, sort |-> "error_count DESC",
   limit |-> "20"]

MetricQuery(time_window) ==
  [call |-> "esql", source |-> "system-metrics", window |-> esql_time(time_window),
   filter |-> "none", by |-> <<"service_name", "metric_name">>,
   having |-> <<"metric ceilings">>, sort |-> "max_value DESC", limit |-> "none"]

IncidentQuery(time_window) ==
  [call |-> "esql", source |-> "app-logs", window |-> esql_time(time_window),
   filter |-> "severity == CRITICAL", by |-> <<"service_name", "error_code">>,
   having |-> <<"error_count > 5">>, sort |-> "error_count DESC", limit |-> "10"]

InventoryQuery(service_name) ==
  [call |-> "search", index |-> "service-inventory", term |-> service_name]

RunbookQuery(search_term) ==
  [call |-> "search", index |-> "runbooks", multi_match |-> Rendered(search_term),
   size |-> "3"]

\* the payload of a tool whose store call raised
FailurePayload(error) == [success |-> FALSE, error |-> error]

\* the payload of an aggregation answer
TablePayload(ans) ==
  IF ans.raised THEN FailurePayload(ans.error)
  ELSE [success |-> TRUE, data |-> ans.values, columns |-> ans.columns]

(***************************************************************************)
(* TOOL 1: detect_error_spikes(time_window="1 hour", threshold=10)         *)
(***************************************************************************)
detect_error_spikes(params, ans) ==
  LET time_window == DictGet(params, "time_window", JStr("1 hour"))
  IN IF ~Hashable(time_window) THEN Raised("TypeError", 52)
     ELSE Returned(TablePayload(ans))

(***************************************************************************)
(* TOOL 2: detect_metric_anomalies(time_window="1 hour")                   *)
(***************************************************************************)
detect_metric_anomalies(params, ans) ==
  LET time_window == DictGet(params, "time_window", JStr("1 hour"))
  IN IF ~Hashable(time_window) THEN Raised("TypeError", 87)
     ELSE Returned(TablePayload(ans))

(***************************************************************************)
(* TOOL 3: analyze_with_enrichment(time_window="1 hour")                   *)
(***************************************************************************)
\* the three fields appended to a row from its lookup answer
Enrichment(lookup) ==
  IF Len(lookup.hits) > 0
  THEN LET service == lookup.hits[1]
       IN <<service.team, service.oncall_slack_channel, service.criticality>>
  ELSE <<"unknown", "unknown", "unknown">>

\* the index of the first lookup that raised, 0 when none did
FirstFailedLookup(lookups) ==
  IF \E i \in 1..Len(lookups) : lookups[i].raised
  THEN CHOOSE i \in 1..Len(lookups) :
         lookups[i].raised /\ \A j \in 1..(i - 1) : ~lookups[j].raised
  ELSE 0

\* an enrichment that keeps the rows it got to when a lookup raises
analyze_with_enrichmentMutant(params, ans) ==
  LET time_window == DictGet(params, "time_window", JStr("1 hour"))
      failed == FirstFailedLookup(ans.lookups)
      kept == IF failed = 0 THEN Len(ans.lookups) ELSE failed - 1
  IN IF ~Hashable(time_window) THEN Raised("TypeError", 128)
     ELSE IF ans.esql.raised THEN Returned(FailurePayload(ans.esql.error))
     ELSE Returned(
            [success |-> TRUE,
             data |-> [i \in 1..kept |-> ans.esql.values[i] \o Enrichment(ans.lookups[i])],
             columns |-> ans.esql.columns \o <<"team", "slack_channel", "criticality">>])

analyze_with_enrichment(params, ans) ==
  LET time_window == DictGet(params, "time_window", JStr("1 hour"))
      failed == FirstFailedLookup(ans.lookups)
  IN IF ~Hashable(time_window) THEN Raised("TypeError", 128)
     ELSE IF ans.esql.raised THEN Returned(FailurePayload(ans.esql.error))
     ELSE IF failed # 0 THEN Returned(FailurePayload(ans.lookups[failed].error))
     ELSE Returned(
            [success |-> TRUE,
             data |-> [i \in 1..Len(ans.esql.values) |->
                         ans.esql.values[i] \o Enrichment(ans.lookups[i])],
             columns |-> ans.esql.columns \o <<"team", "slack_channel", "criticality">>])

(***************************************************************************)
(* TOOL 4: search_runbooks(search_term)                                    *)
(***************************************************************************)
\* the dict built from one hit
Runbook(hit) ==
  [title |-> hit._source.title, error_pattern |-> hit._source.error_pattern,
   solution |-> hit._source.solution, commands |-> hit._source.commands,
   service |-> hit._source.service, score |-> hit._score]

search_runbooks(params, ans) ==
  IF ans.raised THEN Returned(FailurePayload(ans.error))
  ELSE Returned([success |-> TRUE,
                 data |-> [i \in 1..Len(ans.hits) |-> Runbook(ans.hits[i])]])

(***************************************************************************)
(* The store's possible answers to one invocation of a tool.               *)
(***************************************************************************)
\* the lookup answers for the rows of an aggregation answer, in row order:
\* one per row, or fewer when the last one asked for raised
LookupSeqs(esql) ==
  IF esql.raised THEN {<<>>}
  ELSE {l \in SeqUpTo(UNION {LookupAnswers(esql.values[i][1]) : i \in 1..Len(esql.values)},
                      Len(esql.values)) :
          /\ \A i \in 1..Len(l) : l[i] \in LookupAnswers(esql.values[i][1])
          /\ \A i \in 1..(Len(l) - 1) : ~l[i].raised
          /\ Len(l) = Len(esql.values) \/ (Len(l) > 0 /\ l[Len(l)].raised)}

\* a threshold that does not render as a number makes the store reject the query
ThresholdRejected(params) ==
  "threshold" \in DOMAIN params /\ params["threshold"].t # "num"

StoreAnswers(name, params) ==
  CASE name = "detect_errors" ->
         IF ThresholdRejected(params) THEN {StoreFailure}
         ELSE EsqlAnswers(ErrorSpikeRows, ErrorSpikeColumns)
    [] name = "detect_metrics" -> EsqlAnswers(MetricRows, MetricColumns)
    [] name = "analyze_incident" ->
         UNION {{[esql |-> e, lookups |-> l] : l \in LookupSeqs(e)} :
                  e \in EsqlAnswers(IncidentRows, IncidentColumns)}
    [] name = "search_runbook" -> RunbookAnswers

\* self.tools[name](**params) once the arguments are bound
Invoke(name, params, ans) ==
  CASE name = "detect_errors" -> detect_error_spikes(params, ans)
    [] name = "detect_metrics" -> detect_metric_anomalies(params, ans)
    [] name = "analyze_incident" -> analyze_with_enrichment(params, ans)
    [] name = "search_runbook" -> search_runbooks(params, ans)

\* one entry of the store's log: who asked what, whether the call raised, and
\* what the store answered
StoreCall(tool, query, ans) ==
  [tool |-> tool, query |-> query, raised |-> ans.raised, answer |-> ans]

\* a metric tool that sends its query once more when the store raised
ToolQueriesMutant(name, params, ans) ==
  LET time_window == DictGet(params, "time_window", JStr("1 hour"))
  IN CASE name = "detect_errors" ->
            <<StoreCall(name, ErrorSpikeQuery(time_window,
                                              DictGet(params, "threshold", JNum(10))), ans)>>
       [] name = "detect_metrics" ->
            IF ans.raised
            THEN <<StoreCall(name, MetricQuery(time_window), ans),
                   StoreCall(name, MetricQuery(time_window), ans)>>
            ELSE <<StoreCall(name, MetricQuery(time_window), ans)>>
       [] name = "analyze_incident" ->
            LET failed == FirstFailedLookup(ans.lookups)
                issued == IF failed = 0 THEN Len(ans.lookups) ELSE failed
            IN <<StoreCall(name, IncidentQuery(time_window), ans.esql)>> \o
               [i \in 1..issued |->
                  StoreCall(name, InventoryQuery(ans.esql.values[i][1]), ans.lookups[i])]
       [] name = "search_runbook" ->
            <<StoreCall(name, RunbookQuery(params["search_term"]), ans)>>

\* the store calls one invocation makes, in order
ToolQueries(name, params, ans) ==
  LET time_window == DictGet(params, "time_window", JStr("1 hour"))
  IN CASE name = "detect_errors" ->
            <<StoreCall(name, ErrorSpikeQuery(time_window,
                                              DictGet(params, "threshold", JNum(10))), ans)>>
       [] name = "detect_metrics" -> <<StoreCall(name, MetricQuery(time_window), ans)>>
       [] name = "analyze_incident" ->
            LET failed == FirstFailedLookup(ans.lookups)
                issued == IF failed = 0 THEN Len(ans.lookups) ELSE failed
            IN <<StoreCall(name, IncidentQuery(time_window), ans.esql)>> \o
               [i \in 1..issued |->
                  StoreCall(name, InventoryQuery(ans.esql.values[i][1]), ans.lookups[i])]
       [] name = "search_runbook" ->
            <<StoreCall(name, RunbookQuery(params["search_term"]), ans)>>

(***************************************************************************)
(* The model's answer text and its parsing (lines 250-251).                *)
(***************************************************************************)
\* pieces an answer text is made of
Whitespace == [k |-> "ws"]
Fence == [k |-> "fence"]
Prose == [k |-> "prose"]
JsonText(v) == [k |-> "json", v |-> v]

\* str.strip(): drops the whitespace at both ends and nothing else
RECURSIVE strip(_)
strip(text) ==
  IF text = <<>> THEN text
  ELSE IF Head(text) = Whitespace THEN strip(Tail(text))
  ELSE IF text[Len(text)] = Whitespace THEN strip(SubSeq(text, 1, Len(text) - 1))
  ELSE text

\* json.loads: the text must be one JSON document and nothing else
json_loads(text) ==
  LET body == strip(text)
  IN IF Len(body) = 1 /\ body[1].k = "json" THEN Returned(body[1].v)
     ELSE Raised("JSONDecodeError", 251)

\* a fallback that asks for another threshold
FallbackDecisionMutant ==
  [tools_to_use |-> JArr(<<JStr("detect_errors")>>),
   parameters |-> JObj([detect_errors |->
                          JObj([time_window |-> JStr("1 hour"), threshold |-> JNum(5)])])]

\* the decision used when the resolve phase fails (lines 255-263)
FallbackDecision ==
  [tools_to_use |-> JArr(<<JStr("detect_errors")>>),
   parameters |-> JObj([detect_errors |->
                          JObj([time_window |-> JStr("1 hour"), threshold |-> JNum(10)])])]

\* lines 249-263: the decision from the outcome of model.generate_content
ResolveDecision(reply) ==
  IF reply.raised THEN FallbackDecision
  ELSE LET parsed == json_loads(reply.text)
       IN IF parsed.raised THEN FallbackDecision
          ELSE IF ~IsDict(parsed.value) THEN FallbackDecision
          ELSE parsed.value.o

(***************************************************************************)
(* What the generative model may answer (external, untrusted).             *)
(***************************************************************************)
\* values the model may give for time_window: the table's keys, other
\* strings, and a value Python cannot hash
TimeWindowValues ==
  {JStr(w) : w \in {"1 hour", "30 minutes", "24 hours", "1h", "30m", "24h", "2 days"}}
    \cup {JArr(<<JStr("1 hour")>>)}

\* per-tool parameter values: not a mapping, empty, each window, and wrong keys
ParamChoices(name) ==
  {JNull, JObj(EmptyDict)} \cup
  CASE name = "detect_errors" ->
         {JObj([time_window |-> w]) : w \in TimeWindowValues} \cup
         {JObj([threshold |-> JStr("high")]),
          JObj([time_window |-> JStr("30 minutes"), threshold |-> JNum(5)]),
          JObj([time_window |-> JStr("1 hour"), limit |-> JNum(20)])}
    [] name = "detect_metrics" ->
         {JObj([time_window |-> w]) : w \in TimeWindowValues} \cup
         {JObj([time_window |-> JStr("1 hour"), threshold |-> JNum(85)])}
    [] name = "analyze_incident" ->
         {JObj([time_window |-> w]) : w \in TimeWindowValues} \cup
         {JObj([service |-> JStr("payment-service")])}
    [] name = "search_runbook" ->
         {JObj([search_term |-> JStr("DatabaseConnectionError")]),
          JObj([query |-> JStr("DatabaseConnectionError")])}

\* entries of tools_to_use: catalog names, a name outside the catalog, and
\* an entry that is not a name at all
ToolItems ==
  {JStr(n) : n \in tools \cup {"restart_service"}} \cup
  {JObj([name |-> JStr("detect_errors")])}

\* values of tools_to_use: not iterable, a bare string, or a list of entries
ToolsValues ==
  {JNull, JStr("detect_errors")} \cup {JArr(l) : l \in SeqUpTo(ToolItems, MaxTools)}

\* the catalog names a tools_to_use value lists
Listed(tv) ==
  IF tv.t = "arr"
  THEN {tv.a[i].s : i \in {j \in 1..Len(tv.a) : tv.a[j].t = "str" /\ tv.a[j].s \in tools}}
  ELSE {}

\* parameters mappings over the listed names: each name absent or given a choice
RECURSIVE ParamMaps(_)
ParamMaps(names) ==
  IF names = {} THEN {EmptyDict}
  ELSE LET n == CHOOSE x \in names : TRUE
           rest == ParamMaps(names \ {n})
       IN rest \cup
          {[k \in DOMAIN m \cup {n} |-> IF k = n THEN c ELSE m[k]] :
             m \in rest, c \in ParamChoices(n)}

\* a key the model leaves out of its answer
Absent == [t |-> "absent"]

\* values of parameters for a tools_to_use value: left out, not a mapping,
\* or a mapping over the listed names
ParametersValues(tv) == {Absent, JNull} \cup {JObj(m) : m \in ParamMaps(Listed(tv))}

\* the JSON object with the keys that are not left out
DecisionOf(tv, pv) ==
  [k \in {x \in {"tools_to_use", "parameters"} :
            (x = "tools_to_use" /\ tv # Absent) \/ (x = "parameters" /\ pv # Absent)} |->
     IF k = "tools_to_use" THEN tv ELSE pv]

\* the texts the model may put a decision in: bare, or, when it states no
\* parameters, inside whitespace or a fenced code block
TextsOf(d) ==
  {<<JsonText(JObj(d))>>} \cup
  IF "parameters" \in DOMAIN d THEN {}
  ELSE {<<Whitespace, JsonText(JObj(d)), Whitespace>>, <<Fence, JsonText(JObj(d)), Fence>>}

\* answer texts that state no decision
OtherTexts ==
  {<<>>, <<Prose>>, <<Prose, JsonText(JObj(EmptyDict))>>,
   <<JsonText(JNull)>>, <<JsonText(JArr(<<JStr("detect_errors")>>))>>}

\* a model call that raised: an API error or a timeout of the client
ModelFailures == {[raised |-> TRUE, error |-> "DeadlineExceeded"]}

\* model.generate_content(decision_prompt) answered with this text
Answered(text) == [raised |-> FALSE, text |-> text]

\* outcomes of the resolve-phase call that carry no decision
ResolveMisses == ModelFailures \cup {Answered(t) : t \in OtherTexts}

\* tools_to_use values explored when two requests run side by side: one
\* tool, a skipped name before a tool, the same tool twice, a tool whose
\* required argument is missing
WebToolsValues ==
  {JArr(<<JStr("detect_errors")>>),
   JArr(<<JStr("restart_service"), JStr("detect_metrics")>>),
   JArr(<<JStr("detect_errors"), JStr("detect_errors")>>),
   JArr(<<JStr("search_runbook")>>)}

\* the model answers explored in each mode: all of them for one request at a
\* time, a few for two requests side by side
MissesIn(m) == IF m = "web" THEN ModelFailures ELSE ResolveMisses
ToolsValuesIn(m) == IF m = "web" THEN WebToolsValues ELSE ToolsValues \cup {Absent}
ParametersValuesIn(m, tv) == IF m = "web" THEN {Absent} ELSE ParametersValues(tv)

\* outcomes of model.generate_content(format_prompt)
SummaryReplies == ModelFailures \cup {Answered("1 CRITICAL incident, page on-call")}

(***************************************************************************)
(* The app-logs index and the meaning of the error-spike query on it       *)
(* (lines 54-62).                                                          *)
(***************************************************************************)
\* services that write logs: those of scripts/data/generate_logs.py and one
\* the reference dataset does not know
LogServices ==
  {"api-gateway", "payment-service", "user-service", "auth-service", "order-service",
   "legacy-batch"}

\* error codes of scripts/data/generate_logs.py
ErrorCodes ==
  {"DatabaseConnectionError", "HighLatency", "OutOfMemory", "RateLimitExceeded",
   "AuthenticationFailure"}

\* a document of app-logs; age is NOW() - @timestamp in minutes
LogDoc(service_name, error_code, severity, age) ==
  [service_name |-> service_name, error_code |-> error_code, severity |-> severity,
   age |-> age]

\* the documents scripts/tests/inject_incident.py indexes (50 of them)
IncidentDoc == LogDoc("payment-service", "DatabaseConnectionError", "CRITICAL", 0)

\* documents indexed one at a time
SingleDocs ==
  {LogDoc("payment-service", "DatabaseConnectionError", "CRITICAL", 45),
   LogDoc("payment-service", "DatabaseConnectionError", "ERROR", 10),
   LogDoc("payment-service", "DatabaseConnectionError", "WARN", 10),
   LogDoc("api-gateway", "HighLatency", "ERROR", 10)}

\* a bulk load: every (service, code) pair gets one ERROR document, and with
\* the skewed profile the services of the reference dataset get a second one
BulkLoad(profile) ==
  [e \in {LogDoc(s, c, "ERROR", 45) : s \in LogServices, c \in ErrorCodes} |->
     IF profile = "skewed" /\ e.service_name # "legacy-batch" THEN 2 ELSE 1]

\* NOW() - <token>, in minutes
WindowMinutes(token) ==
  CASE token = "1h" -> 60
    [] token = "30m" -> 30
    [] token = "24h" -> 1440

\* WHERE @timestamp > NOW() - window  |  WHERE severity IN ("ERROR", "CRITICAL")
Matching(docs, token) ==
  {e \in BagToSet(docs) :
     e.age < WindowMinutes(token) /\ e.severity \in {"ERROR", "CRITICAL"}}

\* STATS error_count = COUNT(*) BY service_name, error_code: the count of one group
ErrorCount(docs, token, service_name, error_code) ==
  LET members == {e \in Matching(docs, token) :
                    e.service_name = service_name /\ e.error_code = error_code}
  IN IF members = {} THEN 0 ELSE BagCardinality([e \in members |-> docs[e]])

\* SORT error_count DESC: rows by falling first cell, ties in the store's order
RECURSIVE SortDesc(_)
SortDesc(rows) ==
  IF rows = {} THEN <<>>
  ELSE LET top == CHOOSE r \in rows : \A q \in rows : q[1] <= r[1]
       IN <<top>> \o SortDesc(rows \ {top})

\* LIMIT n
Limit(rows, n) == SubSeq(rows, 1, IF Len(rows) < n THEN Len(rows) ELSE n)

\* a query that keeps the groups at the threshold too
EvalErrorSpikeMutant(docs, token, threshold) ==
  LET counted == {<<ErrorCount(docs, token, e.service_name, e.error_code),
                    e.service_name, e.error_code>> : e \in Matching(docs, token)}
  IN Limit(SortDesc({r \in counted : r[1] >= threshold}), 20)

\* the rows the store answers the compiled error-spike query with
EvalErrorSpike(docs, token, threshold) ==
  LET counted == {<<ErrorCount(docs, token, e.service_name, e.error_code),
                    e.service_name, e.error_code>> : e \in Matching(docs, token)}
  IN Limit(SortDesc({r \in counted : r[1] > threshold}), 20)

\* thresholds asked for in the store scenarios
SpikeThresholds == {0, 1, 2, 49, 50}

\* windows asked for in the store scenarios
SpikeWindows == {"30 minutes", "1 hour", "24 hours"}

(***************************************************************************)
(* The notifier's severity heuristic.                                      *)
(***************************************************************************)
\* words a summary is made of
SummaryWords == {"CRITICAL", "WARNING", "INFO", "resolved"}

\* the summary contains the token
Contains(text, token) == \E i \in 1..Len(text) : text[i] = token

\* a scan that looks for WARNING first
SeverityOfMutant(text) ==
  IF Contains(text, "WARNING") THEN "WARNING"
  ELSE IF Contains(text, "CRITICAL") THEN "CRITICAL"
  ELSE "INFO"

\* the scan for the literal tokens, CRITICAL first, INFO when neither occurs
SeverityOf(text) ==
  IF Contains(text, "CRITICAL") THEN "CRITICAL"
  ELSE IF Contains(text, "WARNING") THEN "WARNING"
  ELSE "INFO"

(***************************************************************************)
(* State.                                                                  *)
(***************************************************************************)
\* request slots: the interactive loop uses one, the web server one per thread
Requests == {1, 2}

\* a local that is not bound yet
Unbound == [unbound |-> TRUE]

VARIABLES
  mode,            \* "cli": main()'s loop; "web": the Flask handler, threaded
  pc,              \* pc[r]: where request r is in decide_and_execute
  reply,           \* reply[r]: outcome of the resolve-phase model call
  decision,        \* decision[r]: the local dict decision
  idx,             \* idx[r]: position of the for loop in tools_to_use
  results,         \* results[r]: the local dict results
  store_log,       \* store_log[r]: queries request r has sent to the store
  summary_reply,   \* summary_reply[r]: outcome of the summarize-phase model call
  final_response,  \* final_response[r]: the local final_response
  exc,             \* exc[r]: the exception that left decide_and_execute
  model_calls,     \* model_calls[r]: generate_content calls request r has made
  self_tools,      \* the instance attribute self.tools (its keys)
  app_logs,        \* the documents of the app-logs index
  spikes,          \* the answer to the error-spike query sent to that index
  alert_summary,   \* the summary text handed to the notifier
  alert_severity   \* the severity the notifier derived from it

\* what no step of decide_and_execute assigns
outside == <<self_tools, app_logs, spikes, alert_summary, alert_severity>>

\* the locals of the requests and the calls they made
pipeline ==
  <<mode, pc, reply, decision, idx, results, store_log, summary_reply, final_response, exc,
    model_calls>>

vars == <<pipeline, outside>>

\* no model call made yet
NoCalls == [resolve |-> 0, summarize |-> 0]

\* a results dict kept on the shared instance
SlotMutant(r) == 1

\* whose results dict request r works on: its own frame's (line 265)
Slot(r) == r

\* the locals of a request that is not running
Fresh(r) ==
  /\ reply' = [reply EXCEPT ![r] = Unbound]
  /\ decision' = [decision EXCEPT ![r] = Unbound]
  /\ idx' = [idx EXCEPT ![r] = 0]
  /\ results' = [results EXCEPT ![Slot(r)] = Unbound]
  /\ store_log' = [store_log EXCEPT ![r] = <<>>]
  /\ summary_reply' = [summary_reply EXCEPT ![r] = Unbound]
  /\ final_response' = [final_response EXCEPT ![r] = Unbound]
  /\ exc' = [exc EXCEPT ![r] = Unbound]
  /\ model_calls' = [model_calls EXCEPT ![r] = NoCalls]

Init ==
  /\ mode = "cli"
  /\ pc = [r \in Requests |-> "idle"]
  /\ reply = [r \in Requests |-> Unbound]
  /\ decision = [r \in Requests |-> Unbound]
  /\ idx = [r \in Requests |-> 0]
  /\ results = [r \in Requests |-> Unbound]
  /\ store_log = [r \in Requests |-> <<>>]
  /\ summary_reply = [r \in Requests |-> Unbound]
  /\ final_response = [r \in Requests |-> Unbound]
  /\ exc = [r \in Requests |-> Unbound]
  /\ model_calls = [r \in Requests |-> NoCalls]
  /\ self_tools = tools
  /\ app_logs = EmptyBag
  /\ spikes = Unbound
  /\ alert_summary = <<>>
  /\ alert_severity = Unbound

(***************************************************************************)
(* decide_and_execute, step by step.                                       *)
(***************************************************************************)
\* the caller invokes commander.decide_and_execute(user_query)
Start(r) ==
  /\ pc[r] = "idle"
  /\ mode = "web" \/ (r = 1 /\ \A q \in Requests : pc[q] = "idle")
  /\ pc' = [pc EXCEPT ![r] = "resolving"]
  /\ UNCHANGED <<mode, reply, decision, idx, results, store_log, summary_reply,
                 final_response, exc, model_calls, outside>>

\* lines 249-265: the resolve-phase model call, the parse, the fallback
Resolve(r) ==
  /\ pc[r] = "resolving"
  /\ \/ \E out \in MissesIn(mode) :
          /\ reply' = [reply EXCEPT ![r] = out]
          /\ decision' = [decision EXCEPT ![r] = ResolveDecision(out)]
     \/ \E tv \in ToolsValuesIn(mode) :
          \E pv \in ParametersValuesIn(mode, tv) :
            \E text \in TextsOf(DecisionOf(tv, pv)) :
              /\ reply' = [reply EXCEPT ![r] = Answered(text)]
              /\ decision' = [decision EXCEPT ![r] = ResolveDecision(Answered(text))]
  /\ results' = [results EXCEPT ![Slot(r)] = EmptyDict]
  /\ idx' = [idx EXCEPT ![r] = 1]
  /\ pc' = [pc EXCEPT ![r] = "executing"]
  /\ model_calls' = [model_calls EXCEPT ![r].resolve = @ + 1]
  /\ UNCHANGED <<mode, store_log, summary_reply, final_response, exc, outside>>

\* a loop that stops one entry early
LoopExhaustedMutant(items, i) == i >= Len(items)

\* the for loop has visited every entry
LoopExhausted(items, i) == i > Len(items)

\* lines 267-271 up to the call: what the loop does with entry i of decision d
LoopStep(d, i) ==
  LET tv == DictGet(d, "tools_to_use", JArr(<<>>))
  IN IF ~Iterable(tv) THEN Raised("TypeError", 267)
     ELSE IF LoopExhausted(Iterate(tv), i) THEN Returned([do |-> "end"])
     ELSE LET tool_name == Iterate(tv)[i]
          IN IF ~Hashable(tool_name) THEN Raised("TypeError", 268)
             ELSE IF ~(tool_name.t = "str" /\ tool_name.s \in self_tools)
                  THEN Returned([do |-> "skip"])
             ELSE LET pv == DictGet(d, "parameters", JObj(EmptyDict))
                  IN IF ~IsDict(pv) THEN Raised("AttributeError", 269)
                     ELSE LET params == DictGet(pv.o, tool_name.s, JObj(EmptyDict))
                          IN IF ~IsDict(params) THEN Raised("TypeError", 271)
                             ELSE IF ~BindsOk(tool_name.s, params.o)
                                  THEN Raised("TypeError", 271)
                             ELSE Returned([do |-> "call", name |-> tool_name.s,
                                            params |-> params.o])

\* an assignment that replaces the whole dict
DictSetMutant(d, key, value) == [k \in {key} |-> value]

\* an assignment that keeps the value a key already has
DictSetKeepFirst(d, key, value) ==
  [k \in DOMAIN d \cup {key} |-> IF k \in DOMAIN d THEN d[k] ELSE value]

\* results[tool_name] = value
DictSet(d, key, value) ==
  [k \in DOMAIN d \cup {key} |-> IF k = key THEN value ELSE d[k]]

\* the loop passes over an entry that is not in self.tools
SkipTool(r) ==
  /\ pc[r] = "executing"
  /\ LET step == LoopStep(decision[r], idx[r])
     IN /\ ~step.raised
        /\ step.value.do = "skip"
  /\ idx' = [idx EXCEPT ![r] = idx[r] + 1]
  /\ UNCHANGED <<mode, pc, reply, decision, results, store_log, summary_reply,
                 final_response, exc, model_calls, outside>>

\* the loop runs one recognized tool and records what it returns
ExecuteTool(r) ==
  /\ pc[r] = "executing"
  /\ LET step == LoopStep(decision[r], idx[r])
     IN /\ ~step.raised
        /\ step.value.do = "call"
        /\ \E ans \in StoreAnswers(step.value.name, step.value.params) :
             LET out == Invoke(step.value.name, step.value.params, ans)
             IN /\ ~out.raised
                /\ results' = [results EXCEPT
                                 ![Slot(r)] = DictSet(results[Slot(r)], step.value.name,
                                                      out.value)]
                /\ store_log' = [store_log EXCEPT
                                   ![r] = store_log[r] \o
                                          ToolQueries(step.value.name, step.value.params, ans)]
  /\ idx' = [idx EXCEPT ![r] = idx[r] + 1]
  /\ UNCHANGED <<mode, pc, reply, decision, summary_reply, final_response, exc,
                 model_calls, outside>>

\* the exception the loop lets through at entry i of decision d, if any
LoopFault(d, i) ==
  LET step == LoopStep(d, i)
  IN IF step.raised THEN step
     ELSE IF step.value.do # "call" THEN Returned(step.value)
     ELSE LET ans == CHOOSE a \in StoreAnswers(step.value.name, step.value.params) : TRUE
          IN Invoke(step.value.name, step.value.params, ans)

\* a fault in the loop is not caught: it leaves decide_and_execute
LoopRaises(r) ==
  /\ pc[r] = "executing"
  /\ LoopFault(decision[r], idx[r]).raised
  /\ exc' = [exc EXCEPT ![r] = LoopFault(decision[r], idx[r]).exc]
  /\ pc' = [pc EXCEPT ![r] = "raised"]
  /\ UNCHANGED <<mode, reply, decision, idx, results, store_log, summary_reply,
                 final_response, model_calls, outside>>

\* the loop is exhausted; lines 273-278 build the summarize prompt
EndLoop(r) ==
  /\ pc[r] = "executing"
  /\ LET step == LoopStep(decision[r], idx[r])
     IN /\ ~step.raised
        /\ step.value.do = "end"
  /\ pc' = [pc EXCEPT ![r] = "summarizing"]
  /\ UNCHANGED <<mode, reply, decision, idx, results, store_log, summary_reply,
                 final_response, exc, model_calls, outside>>

\* a fallback summary that leaves the results out
RawSummaryMutant(error, res) ==
  [kind |-> "raw", error |-> error, raw_results |-> Rendered(EmptyDict)]

\* lines 284-287: "Formatting error: {e}\n\nRaw Results:\n" + json.dumps(results)
RawSummary(error, res) ==
  [kind |-> "raw", error |-> error, raw_results |-> Rendered(res)]

\* lines 280-287: the summarize-phase model call and its fallback
Summarize(r) ==
  /\ pc[r] = "summarizing"
  /\ \E out \in SummaryReplies :
       /\ summary_reply' = [summary_reply EXCEPT ![r] = out]
       /\ final_response' = [final_response EXCEPT
                               ![r] = IF out.raised THEN RawSummary(out.error, results[Slot(r)])
                                      ELSE [kind |-> "model", text |-> out.text]]
  /\ pc' = [pc EXCEPT ![r] = "done"]
  /\ model_calls' = [model_calls EXCEPT ![r].summarize = @ + 1]
  /\ UNCHANGED <<mode, reply, decision, idx, results, store_log, exc, outside>>

\* lines 289-293: the report handed to the caller
Report(r) ==
  [decision |-> decision[r], tool_results |-> results[Slot(r)],
   response |-> final_response[r]]

\* the caller takes the report or the exception; the locals are gone
Return(r) ==
  /\ pc[r] \in {"done", "raised"}
  /\ pc' = [pc EXCEPT ![r] = "idle"]
  /\ Fresh(r)
  /\ UNCHANGED <<mode, outside>>

Next ==
  \E r \in Requests :
    \/ Start(r)
    \/ Resolve(r)
    \/ SkipTool(r)
    \/ ExecuteTool(r)
    \/ LoopRaises(r)
    \/ EndLoop(r)
    \/ Summarize(r)
    \/ Return(r)

Spec == Init /\ [][Next]_vars

\* every step of a started request is taken eventually; whether a user
\* submits a query at all is not
FairSpec ==
  /\ Spec
  /\ \A r \in Requests :
       /\ WF_vars(Resolve(r))
       /\ WF_vars(SkipTool(r))
       /\ WF_vars(ExecuteTool(r))
       /\ WF_vars(LoopRaises(r))
       /\ WF_vars(EndLoop(r))
       /\ WF_vars(Summarize(r))
       /\ WF_vars(Return(r))

\* web_ui.py: the Flask server runs query() on a thread per HTTP request, all
\* on the one module-level commander
InitWeb ==
  /\ mode = "web"
  /\ pc = [r \in Requests |-> "idle"]
  /\ reply = [r \in Requests |-> Unbound]
  /\ decision = [r \in Requests |-> Unbound]
  /\ idx = [r \in Requests |-> 0]
  /\ results = [r \in Requests |-> Unbound]
  /\ store_log = [r \in Requests |-> <<>>]
  /\ summary_reply = [r \in Requests |-> Unbound]
  /\ final_response = [r \in Requests |-> Unbound]
  /\ exc = [r \in Requests |-> Unbound]
  /\ model_calls = [r \in Requests |-> NoCalls]
  /\ self_tools = tools
  /\ app_logs = EmptyBag
  /\ spikes = Unbound
  /\ alert_summary = <<>>
  /\ alert_severity = Unbound

SpecWeb == InitWeb /\ [][Next]_vars

(***************************************************************************)
(* The event store on its own: documents are indexed, then the compiled    *)
(* error-spike query is sent once.                                         *)
(***************************************************************************)
\* scripts/data/generate_logs.py: helpers.bulk into the empty index
BulkIndex ==
  /\ spikes = Unbound
  /\ app_logs = EmptyBag
  /\ \E profile \in {"flat", "skewed"} : app_logs' = BulkLoad(profile)
  /\ UNCHANGED <<pipeline, self_tools, spikes, alert_summary, alert_severity>>

\* scripts/tests/inject_incident.py lines 24-40: 50 CRITICAL documents
InjectIncident ==
  /\ spikes = Unbound
  /\ ~BagIn(IncidentDoc, app_logs)
  /\ app_logs' = app_logs (+) [e \in {IncidentDoc} |-> 50]
  /\ UNCHANGED <<pipeline, self_tools, spikes, alert_summary, alert_severity>>

\* es.index of one document
IndexEvent ==
  /\ spikes = Unbound
  /\ \E e \in SingleDocs :
       /\ CopiesIn(e, app_logs) < MaxEvents
       /\ app_logs' = app_logs (+) SetToBag({e})
  /\ UNCHANGED <<pipeline, self_tools, spikes, alert_summary, alert_severity>>

\* detect_error_spikes(time_window, threshold): lines 52-68 on this index
QueryErrorSpikes ==
  /\ spikes = Unbound
  /\ \E time_window \in SpikeWindows, threshold \in SpikeThresholds :
       spikes' = [window |-> esql_time(JStr(time_window)), threshold |-> threshold,
                  values |-> EvalErrorSpike(app_logs, esql_time(JStr(time_window)),
                                            threshold),
                  columns |-> ErrorSpikeColumns]
  /\ UNCHANGED <<pipeline, self_tools, app_logs, alert_summary, alert_severity>>

NextStore ==
  \/ BulkIndex
  \/ InjectIncident
  \/ IndexEvent
  \/ QueryErrorSpikes

SpecStore == Init /\ [][NextStore]_vars

(***************************************************************************)
(* The notifier on its own: a summary is written word by word, then        *)
(* classified.                                                             *)
(***************************************************************************)
\* the summary grows by one word
Write ==
  /\ alert_severity = Unbound
  /\ Len(alert_summary) < MaxWords
  /\ \E w \in SummaryWords : alert_summary' = Append(alert_summary, w)
  /\ UNCHANGED <<pipeline, self_tools, app_logs, spikes, alert_severity>>

\* the notifier derives the severity of the summary
Classify ==
  /\ alert_severity = Unbound
  /\ alert_severity' = [tag |-> SeverityOf(alert_summary)]
  /\ UNCHANGED <<pipeline, self_tools, app_logs, spikes, alert_summary>>

NextNotifier ==
  \/ Write
  \/ Classify

SpecNotifier == Init /\ [][NextNotifier]_vars

(***************************************************************************)
(* Vocabulary of the properties.                                           *)
(***************************************************************************)
\* the entries of tools_to_use as the loop meets them
Entries(d) ==
  LET tv == DictGet(d, "tools_to_use", JArr(<<>>))
  IN IF Iterable(tv) THEN Iterate(tv) ELSE <<>>

\* the catalog operations a decision names
RequestedTools(d) ==
  {Entries(d)[i].s :
     i \in {j \in 1..Len(Entries(d)) :
              Entries(d)[j].t = "str" /\ Entries(d)[j].s \in tools}}

\* the answer is one JSON object, with at most whitespace around it
ParsesAsDecision(text) ==
  \E i \in 1..Len(text) :
    /\ text[i].k = "json"
    /\ text[i].v.t = "obj"
    /\ \A j \in (1..Len(text)) \ {i} : text[j] = Whitespace

\* the resolve phase of request r is over and did not yield a decision
ResolveFailed(r) ==
  /\ reply[r] # Unbound
  /\ reply[r].raised \/ ~ParsesAsDecision(reply[r].text)

(***************************************************************************)
(* C1. decide_and_execute never lets a fault escape: whatever the model    *)
(* answers and whatever fails, the call ends with a report holding         *)
(* decision, tool_results and response.                                    *)
(***************************************************************************)
C1_NoFaultEscapes ==
  \A r \in Requests :
    /\ pc[r] # "raised"
    /\ pc[r] = "done" =>
         /\ Report(r).decision # Unbound
         /\ Report(r).tool_results # Unbound
         /\ Report(r).response # Unbound

(***************************************************************************)
(* C2. When the resolve-phase model call raises or its answer does not     *)
(* parse as a decision, the decision is the fixed fallback (detect_errors  *)
(* alone, window 1 hour, threshold 10) and the request goes on through     *)
(* execution and summarization like any other.                             *)
(***************************************************************************)
C2_FallbackOnResolveFailure ==
  \A r \in Requests :
    ResolveFailed(r) =>
      /\ decision[r] =
           [tools_to_use |-> JArr(<<JStr("detect_errors")>>),
            parameters |-> JObj([detect_errors |->
                                   JObj([time_window |-> JStr("1 hour"),
                                         threshold |-> JNum(10)])])]
      /\ pc[r] # "raised"
      /\ pc[r] \in {"summarizing", "done"} =>
           /\ DOMAIN results[r] = {"detect_errors"}
           /\ Len(store_log[r]) = 1
           /\ store_log[r][1].query.source = "app-logs"
           /\ store_log[r][1].query.window = "1h"
           /\ store_log[r][1].query.having = <<"error_count >", Rendered(JNum(10))>>

\* a request whose model answered in prose has finished on the fallback
C2_Witness ==
  \E r \in Requests :
    /\ pc[r] = "done"
    /\ ~reply[r].raised
    /\ reply[r].text = <<Prose>>
    /\ "detect_errors" \in DOMAIN results[r]

(***************************************************************************)
(* C3. When the answer is a valid decision wrapped in formatting noise     *)
(* (whitespace, a fenced code block), the decision used is the one the     *)
(* model stated, not the fallback.                                         *)
(***************************************************************************)
C3_WrappedDecisionIsUsed ==
  \A r \in Requests :
    (reply[r] # Unbound /\ ~reply[r].raised) =>
      \A i \in 1..Len(reply[r].text) :
        ( /\ reply[r].text[i].k = "json"
          /\ reply[r].text[i].v.t = "obj"
          /\ \A j \in (1..Len(reply[r].text)) \ {i} :
               reply[r].text[j] \in {Whitespace, Fence} )
        => decision[r] = reply[r].text[i].v.o

(***************************************************************************)
(* C4. The loop runs exactly the listed entries that are catalog           *)
(* operations and silently skips every other entry: such an entry raises   *)
(* no error, gets no key in tool_results, and the recognized operations    *)
(* around it still run; every key of tool_results is a catalog operation   *)
(* the decision names.                                                     *)
(***************************************************************************)
C4_UnknownNamesAreSkipped ==
  \A r \in Requests :
    /\ pc[r] = "raised" => exc[r].line # 268
    /\ results[r] # Unbound => DOMAIN results[r] \subseteq RequestedTools(decision[r])
    /\ pc[r] \in {"summarizing", "done"} =>
         DOMAIN results[r] = RequestedTools(decision[r])

(***************************************************************************)
(* C5. A store failure inside one operation stays inside it: the step      *)
(* records a failure payload (success false, an error message) under that  *)
(* operation's name, leaves every other recorded result as it was, and     *)
(* the loop goes on to the next entry.                                     *)
(***************************************************************************)
C5_StoreFailureIsIsolated ==
  [][\A r \in Requests :
       (pc[r] = "executing" /\ Len(store_log'[r]) > Len(store_log[r])) =>
         LET name == store_log'[r][Len(store_log'[r])].tool
             failed == \E i \in (Len(store_log[r]) + 1)..Len(store_log'[r]) :
                         store_log'[r][i].raised
         IN /\ Entries(decision[r])[idx[r]] = JStr(name)
            /\ pc'[r] = "executing"
            /\ idx'[r] = idx[r] + 1
            /\ name \in DOMAIN results'[r]
            /\ results'[r][name].success = ~failed
            /\ failed => DOMAIN results'[r][name] = {"success", "error"}
            /\ \A k \in DOMAIN results[r] \ {name} :
                 k \in DOMAIN results'[r] /\ results'[r][k] = results[r][k]]_vars

\* a report where the first operation failed in the store and a later one succeeded
C5_Witness ==
  \E r \in Requests :
    /\ pc[r] = "done"
    /\ Len(store_log[r]) > 1
    /\ store_log[r][1].raised
    /\ \E a, b \in DOMAIN results[r] :
         /\ a = store_log[r][1].tool
         /\ ~results[r][a].success
         /\ results[r][b].success

(***************************************************************************)
(* C6. If the summarize-phase model call fails, the report is still        *)
(* returned, its summary carries the raw collected results, and decision   *)
(* and tool_results are what they were before the call.                    *)
(***************************************************************************)
C6_SummaryFailureKeepsReport ==
  [][\A r \in Requests :
       (pc[r] = "summarizing" /\ pc'[r] # "summarizing") =>
         /\ pc'[r] = "done"
         /\ decision'[r] = decision[r]
         /\ results'[r] = results[r]
         /\ summary_reply'[r].raised =>
              /\ final_response'[r].kind = "raw"
              /\ final_response'[r].raw_results = Rendered(results[r])]_vars

\* a finished request whose summarize call failed and that had results to show
C6_Witness ==
  \E r \in Requests :
    /\ pc[r] = "done"
    /\ summary_reply[r].raised
    /\ DOMAIN results[r] # {}

(***************************************************************************)
(* C7. The phases of a request follow one another in the order resolving,  *)
(* executing, summarizing, done, none entered twice; summarization starts  *)
(* only when every requested recognized operation has its result, and      *)
(* nothing is executed once it has started.                                *)
(***************************************************************************)
C7_PhasesInOrder ==
  [][\A r \in Requests :
       /\ pc'[r] # pc[r] =>
            <<pc[r], pc'[r]>> \in
              {<<"idle", "resolving">>, <<"resolving", "executing">>,
               <<"executing", "summarizing">>, <<"summarizing", "done">>,
               <<"executing", "raised">>, <<"done", "idle">>, <<"raised", "idle">>}
       /\ pc'[r] = "summarizing" =>
            RequestedTools(decision'[r]) \subseteq DOMAIN results'[r]
       /\ (pc[r] \in {"summarizing", "done"} /\ pc'[r] # "idle") =>
            /\ results'[r] = results[r]
            /\ store_log'[r] = store_log[r]
            /\ decision'[r] = decision[r]
       /\ (summary_reply'[r] # summary_reply[r] /\ pc'[r] # "idle") =>
            pc[r] = "summarizing"]_vars

\* summarization is about to start with the results of two operations
C7_Witness ==
  \E r \in Requests :
    /\ pc[r] = "summarizing"
    /\ Cardinality(DOMAIN results[r]) = 2

(***************************************************************************)
(* C8. Every started request eventually reaches done: a model call that    *)
(* fails or times out takes the fallback path, so no request stays in      *)
(* resolving or summarizing, or anywhere short of done, forever.           *)
(***************************************************************************)
C8_EveryRequestReachesDone ==
  \A r \in Requests : (pc[r] = "resolving") ~> (pc[r] = "done")

(***************************************************************************)
(* C9. For every time_window value given to detect_errors, detect_metrics  *)
(* or analyze_incident, compiling the query never raises and the query     *)
(* carries a canonical duration: the table's value for a recognized        *)
(* window, 1h for every other value.                                       *)
(***************************************************************************)
\* the time_window the decision gives a tool, the default when it gives none
GivenWindow(d, name) ==
  DictGet(DictGet(DictGet(d, "parameters", JObj(EmptyDict)).o, name, JObj(EmptyDict)).o,
          "time_window", JStr("1 hour"))

\* the duration the claim assigns to a window
CanonicalWindow(w) ==
  CASE w = JStr("1 hour") -> "1h"
    [] w = JStr("30 minutes") -> "30m"
    [] w = JStr("24 hours") -> "24h"
    [] w = JStr("30m") -> "30m"
    [] OTHER -> "1h"

C9_TimeWindowAlwaysCompiles ==
  \A r \in Requests :
    /\ pc[r] = "raised" => exc[r].line \notin {52, 87, 128}
    /\ \A i \in 1..Len(store_log[r]) :
         store_log[r][i].query.call = "esql" =>
           store_log[r][i].query.window =
             CanonicalWindow(GivenWindow(decision[r], store_log[r][i].tool))

(***************************************************************************)
(* C10. Every operation of the dispatch table runs when the decision       *)
(* supplies no parameters for it: each parameter takes its default and     *)
(* the operation records a result, search_runbook included.                *)
(***************************************************************************)
\* the decision gives no parameter to the catalog operation at entry i
NoParametersGiven(d, i) ==
  /\ i \in 1..Len(Entries(d))
  /\ Entries(d)[i].t = "str"
  /\ Entries(d)[i].s \in tools
  /\ \/ "parameters" \notin DOMAIN d
     \/ /\ IsDict(d["parameters"])
        /\ DictGet(d["parameters"].o, Entries(d)[i].s, JObj(EmptyDict)) = JObj(EmptyDict)

C10_EmptyParametersRun ==
  \A r \in Requests :
    /\ pc[r] = "raised" => ~NoParametersGiven(decision[r], idx[r])
    /\ pc[r] \in {"executing", "summarizing", "done"} =>
         \A i \in 1..(idx[r] - 1) :
           NoParametersGiven(decision[r], i) => Entries(decision[r])[i].s \in DOMAIN results[r]

(***************************************************************************)
(* C11: the dispatch table is as built at construction in every state and  *)
(* holds an executable entry for each of the five catalog operations:      *)
(* error-spike, metric-anomaly, enriched-analysis, ingestion-trend and     *)
(* runbook-search.                                                         *)
(***************************************************************************)
\* the catalog operation the method behind a dispatch key carries out
OperationOf(name) ==
  CASE name = "detect_errors"    -> "error-spike"
    [] name = "detect_metrics"   -> "metric-anomaly"
    [] name = "analyze_incident" -> "enriched-analysis"
    [] name = "search_runbook"   -> "runbook-search"

\* the operations the catalog is said to hold
CatalogOperations ==
  {"error-spike", "metric-anomaly", "enriched-analysis", "ingestion-trend", "runbook-search"}

C11_DispatchTableFixedAndComplete ==
  /\ self_tools = tools
  /\ {OperationOf(name) : name \in self_tools} = CatalogOperations

\* the half of C11 that holds: no request changes the table
C11_DispatchTableNeverMutated == self_tools = tools

(***************************************************************************)
(* C12: in enriched-analysis a row whose service is absent from the        *)
(* reference dataset gets team, slack channel and criticality all equal to *)
(* "unknown", and a row whose service is present gets that service's       *)
(* actual team, alert channel and criticality.                             *)
(***************************************************************************)
\* the position the columns list gives a name, 0 when it has none
ColumnIndex(columns, name) ==
  IF \E i \in 1..Len(columns) : columns[i] = name
  THEN CHOOSE i \in 1..Len(columns) : columns[i] = name
  ELSE 0

\* the service a row is about, by the columns reported with it
ServiceOfRow(row, columns) == row[ColumnIndex(columns, "service_name")]

\* the last n cells of a row
LastCells(row, n) == SubSeq(row, Len(row) - n + 1, Len(row))

\* the enrichment the reference dataset holds for a service
ExpectedEnrichment(service_name) ==
  IF \E s \in SERVICES : s.service_name = service_name
  THEN {<<s.team, s.oncall_slack_channel, s.criticality>> :
          s \in {x \in SERVICES : x.service_name = service_name}}
  ELSE {<<"unknown", "unknown", "unknown">>}

\* the payload of a successful enriched-analysis, or of none
EnrichedRows(r) ==
  IF /\ results[r] # Unbound
     /\ "analyze_incident" \in DOMAIN results[r]
     /\ results[r]["analyze_incident"].success
  THEN results[r]["analyze_incident"]
  ELSE [success |-> TRUE, data |-> <<>>, columns |-> <<>>]

C12_EnrichmentMatchesReference ==
  \A r \in Requests :
    LET payload == EnrichedRows(r)
    IN \A i \in 1..Len(payload.data) :
         LastCells(payload.data[i], 3) \in
           ExpectedEnrichment(ServiceOfRow(payload.data[i], payload.columns))

\* the half of C12 that holds: a service the reference dataset lacks gets
\* the three sentinels
C12_AbsentServiceGetsUnknown ==
  \A r \in Requests :
    LET payload == EnrichedRows(r)
    IN \A i \in 1..Len(payload.data) :
         (\A s \in SERVICES :
            s.service_name # ServiceOfRow(payload.data[i], payload.columns))
           => LastCells(payload.data[i], 3) = <<"unknown", "unknown", "unknown">>

(***************************************************************************)
(* C13: error-spike returns exactly the (service, error code) groups whose *)
(* count of ERROR or CRITICAL events inside the window is strictly greater *)
(* than threshold (a group whose count equals threshold is left out),      *)
(* ordered by count descending and limited to the 20 largest.              *)
(***************************************************************************)
\* every (service, error code) pair
LogGroups == LogServices \X ErrorCodes

\* ERROR or CRITICAL documents of a group inside the window of the query
SpikeCount(g) ==
  BagCardinality(
    [e \in {d \in BagToSet(app_logs) :
              /\ d.service_name = g[1] /\ d.error_code = g[2]
              /\ d.severity \in {"ERROR", "CRITICAL"}
              /\ d.age < WindowMinutes(spikes.window)} |-> app_logs[e]])

\* the groups above the threshold of the query
Spiking == {g \in LogGroups : SpikeCount(g) > spikes.threshold}

\* the groups the answer lists
Reported == {<<spikes.values[i][2], spikes.values[i][3]>> : i \in 1..Len(spikes.values)}

C13_ErrorSpikeRows ==
  spikes # Unbound =>
    LET rows == spikes.values
    IN /\ Reported \subseteq Spiking
       /\ \A i \in 1..Len(rows) : rows[i][1] = SpikeCount(<<rows[i][2], rows[i][3]>>)
       /\ \A i, j \in 1..Len(rows) :
            i < j => /\ rows[i][1] >= rows[j][1]
                     /\ <<rows[i][2], rows[i][3]>> # <<rows[j][2], rows[j][3]>>
       /\ Len(rows) = IF Cardinality(Spiking) < 20 THEN Cardinality(Spiking) ELSE 20
       /\ \A g \in Spiking \ Reported :
            \A i \in 1..Len(rows) : SpikeCount(g) <= rows[i][1]

\* more than 20 groups spike, 20 are returned by falling count, and groups
\* whose count equals a positive threshold are left out
C13_Witness ==
  /\ spikes # Unbound
  /\ spikes.threshold > 0
  /\ Cardinality(Spiking) > 20
  /\ Len(spikes.values) = 20
  /\ spikes.values[1][1] > spikes.values[20][1]
  /\ \E g \in LogGroups : SpikeCount(g) = spikes.threshold

(***************************************************************************)
(* C14: the severity derived from a summary is CRITICAL whenever the       *)
(* summary contains the token CRITICAL (even if WARNING also occurs, and   *)
(* occurs earlier), WARNING when it contains WARNING but not CRITICAL, and *)
(* INFO otherwise.                                                         *)
(***************************************************************************)
\* the words that occur in the summary handed to the notifier
WordsOfSummary == {alert_summary[i] : i \in 1..Len(alert_summary)}

C14_SeverityPrecedence ==
  alert_severity # Unbound =>
    /\ "CRITICAL" \in WordsOfSummary => alert_severity.tag = "CRITICAL"
    /\ ("WARNING" \in WordsOfSummary /\ "CRITICAL" \notin WordsOfSummary)
         => alert_severity.tag = "WARNING"
    /\ ("WARNING" \notin WordsOfSummary /\ "CRITICAL" \notin WordsOfSummary)
         => alert_severity.tag = "INFO"

\* a classified summary in which WARNING comes before CRITICAL
C14_Witness ==
  /\ alert_severity # Unbound
  /\ alert_severity.tag = "CRITICAL"
  /\ \E i, j \in 1..Len(alert_summary) :
       i < j /\ alert_summary[i] = "WARNING" /\ alert_summary[j] = "CRITICAL"

(***************************************************************************)
(* C15: requests handled concurrently through the one shared commander do  *)
(* not interfere: under every interleaving of two decide_and_execute runs, *)
(* each report's decision and tool_results hold only what that request's   *)
(* own resolve step and own operation executions produced, and a request   *)
(* that starts finds nothing left by an earlier one.                       *)
(***************************************************************************)
\* everything request r holds
Locals(r) ==
  <<reply[r], decision[r], results[r], store_log[r], summary_reply[r], final_response[r],
    exc[r]>>

\* the payload under a name is what one of the request's own store calls for
\* that tool gives
FromOwnCalls(r, name) ==
  \E i \in 1..Len(store_log[r]) :
    /\ store_log[r][i].tool = name
    /\ IF store_log[r][i].raised
       THEN results[r][name] = FailurePayload(store_log[r][i].answer.error)
       ELSE /\ results[r][name].success
            /\ name \in {"detect_errors", "detect_metrics"}
                 => results[r][name] = TablePayload(store_log[r][i].answer)
            /\ name = "search_runbook"
                 => Len(results[r][name].data) = Len(store_log[r][i].answer.hits)

\* what request r holds is its own
OwnState(r) ==
  IF pc[r] \in {"idle", "resolving"}
  THEN Locals(r) = <<Unbound, Unbound, Unbound, <<>>, Unbound, Unbound, Unbound>>
  ELSE /\ decision[r] = ResolveDecision(reply[r])
       /\ results[r] # Unbound
       /\ DOMAIN results[r] \subseteq RequestedTools(decision[r])
       /\ \A name \in DOMAIN results[r] : FromOwnCalls(r, name)
       /\ \A i \in 1..Len(store_log[r]) :
            store_log[r][i].tool \in RequestedTools(decision[r])

\* a request that takes no step sees none of its locals change
OthersUntouched ==
  \A r \in Requests : (pc'[r] = pc[r] /\ idx'[r] = idx[r]) => Locals(r)' = Locals(r)

C15_RequestsDoNotInterfere ==
  /\ [](\A r \in Requests : OwnState(r))
  /\ [][OthersUntouched]_vars

\* both requests are under way with different decisions, and each has
\* collected a result of its own
C15_Witness ==
  /\ mode = "web"
  /\ pc[1] = "done" /\ pc[2] = "executing"
  /\ decision[1] # decision[2]
  /\ results[1] # EmptyDict /\ results[2] # Unbound /\ results[2] # EmptyDict
  /\ results[1] # results[2]

(***************************************************************************)
(* C16: no retry happens anywhere in the pipeline: a store query that      *)
(* fails is never re-issued (the failure becomes the operation's result),  *)
(* and each request makes at most one resolve model call and at most one   *)
(* summarize model call, also when either of them fails.                   *)
(***************************************************************************)
\* the store calls request r makes in this step
CallsAdded(r) == SubSeq(store_log'[r], Len(store_log[r]) + 1, Len(store_log'[r]))

\* a tool invocation stops at the first store call that raised, hands the
\* failure on as its result, and the loop moves to the next entry
NoRetryStep ==
  \A r \in Requests :
    Len(store_log'[r]) > Len(store_log[r]) =>
      LET added == CallsAdded(r)
          last == added[Len(added)]
      IN /\ \A i \in 1..(Len(added) - 1) : ~added[i].raised
         /\ last.raised => results'[r][last.tool] = FailurePayload(last.answer.error)
         /\ idx'[r] = idx[r] + 1

\* one model call per phase at most, and exactly one once the phase is over
ModelCalledOnce ==
  \A r \in Requests :
    /\ model_calls[r].resolve <= 1
    /\ model_calls[r].summarize <= 1
    /\ reply[r] # Unbound => model_calls[r].resolve = 1
    /\ summary_reply[r] # Unbound => model_calls[r].summarize = 1
    /\ pc[r] \in {"executing", "raised"} => model_calls[r].summarize = 0

C16_NoRetry ==
  /\ []ModelCalledOnce
  /\ [][NoRetryStep]_vars

\* a request is done whose two model calls and whose store query all failed
C16_Witness ==
  /\ pc[1] = "done"
  /\ reply[1].raised /\ summary_reply[1].raised
  /\ model_calls[1] = [resolve |-> 1, summarize |-> 1]
  /\ Len(store_log[1]) = 1 /\ store_log[1][1].raised
  /\ ~results[1]["detect_errors"].success

(***************************************************************************)
(* C17: for every row returned by the enriched-analysis query, the key     *)
(* used for the reference lookup is that row's service identifier: the     *)
(* value in the position that the reported columns list names              *)
(* service_name.                                                           *)
(***************************************************************************)
\* a store call that is a lookup in the reference dataset
IsLookup(call) == call.query.call = "search" /\ call.query.index = "service-inventory"

\* the place in the log of the aggregation call the lookup at place i follows
AggregationBefore(log, i) ==
  CHOOSE j \in 1..(i - 1) :
    /\ log[j].query.call = "esql"
    /\ \A k \in (j + 1)..(i - 1) : IsLookup(log[k])

C17_LookupKeyIsServiceName ==
  \A r \in Requests :
    \A i \in 1..Len(store_log[r]) :
      IsLookup(store_log[r][i]) =>
        LET j == AggregationBefore(store_log[r], i)
            answer == store_log[r][j].answer
        IN store_log[r][i].query.term = ServiceOfRow(answer.values[i - j], answer.columns)

(***************************************************************************)
(* C18: the enriched-analysis result is all-or-nothing: either a success   *)
(* holding exactly one enriched row per row returned by the store, in the  *)
(* same order and each extended by exactly three fields matching the three *)
(* appended column names, or (when the aggregation query or the reference  *)
(* lookup of any single row fails) a failure payload holding no rows.      *)
(***************************************************************************)
\* the enriched-analysis step that r is taking puts this under its name
AnalysisRecorded(r) ==
  /\ Len(store_log'[r]) > Len(store_log[r])
  /\ store_log'[r][Len(store_log'[r])].tool = "analyze_incident"

AllOrNothing(payload, calls) ==
  LET answer == calls[1].answer
  IN IF \E i \in 1..Len(calls) : calls[i].raised
     THEN /\ ~payload.success
          /\ DOMAIN payload = {"success", "error"}
     ELSE /\ payload.success
          /\ Len(calls) = 1 + Len(answer.values)
          /\ Len(payload.data) = Len(answer.values)
          /\ Len(payload.columns) = Len(answer.columns) + 3
          /\ LastCells(payload.columns, 3) = <<"team", "slack_channel", "criticality">>
          /\ \A i \in 1..Len(payload.data) :
               /\ Len(payload.data[i]) = Len(payload.columns)
               /\ SubSeq(payload.data[i], 1, Len(answer.values[i])) = answer.values[i]

TokensCompiled(r) ==
  {store_log[r][i].query.window :
     i \in {j \in 1..Len(store_log[r]) : store_log[r][j].query.call = "esql"}}

C19_NormalizationIsIdempotent ==
  \A r \in Requests :
    \A token \in TokensCompiled(r) : esql_time(JStr(token)) = token

\* the part of C19 that holds: the tokens 1h and 30m normalize to themselves
C19_ShortTokensAreFixed ==
  \A r \in Requests :
    \A token \in TokensCompiled(r) \cap {"1h", "30m"} : esql_time(JStr(token)) = token

(***************************************************************************)
(* C20 as stated: when a request reaches Done, the number of operation     *)
(* invocations performed during it equals the number of entries of         *)
(* tool_results, also for a decision that names an operation more than     *)
(* once.                                                                   *)
(***************************************************************************)
\* the places in the log where an invocation starts: every tool opens with
\* a call that is no reference lookup
InvocationStarts(log) == {i \in 1..Len(log) : ~IsLookup(log[i])}

\* the store calls of the invocation that starts at place k
InvocationCalls(log, k) ==
  LET end == CHOOSE e \in k..Len(log) :
               /\ \A m \in (k + 1)..e : IsLookup(log[m])
               /\ e = Len(log) \/ ~IsLookup(log[e + 1])
  IN SubSeq(log, k, end)

C20_InvocationsEqualEntries ==
  \A r \in Requests :
    pc[r] = "done" =>
      Cardinality(InvocationStarts(store_log[r])) = Cardinality(DOMAIN results[r])

(***************************************************************************)
(* C20 as it holds: when a request reaches Done, tool_results has one      *)
(* entry for each distinct operation that was invoked, never more entries  *)
(* than invocations, as many exactly when no operation ran twice, and the  *)
(* entry of an operation holds the result of its last invocation.          *)
(***************************************************************************)
\* the payload is what the invocation with these store calls returns
ResultOf(name, payload, calls) ==
  CASE name \in {"detect_errors", "detect_metrics"} -> payload = TablePayload(calls[1].answer)
    [] name = "search_runbook" ->
         IF calls[1].raised THEN payload = FailurePayload(calls[1].answer.error)
         ELSE payload.success /\ Len(payload.data) = Len(calls[1].answer.hits)
    [] name = "analyze_incident" -> AllOrNothing(payload, calls)

C20_OneEntryPerInvokedOperation ==
  \A r \in Requests :
    pc[r] = "done" =>
      LET log == store_log[r]
          starts == InvocationStarts(log)
          LastOf(name) == CHOOSE k \in starts :
                            /\ log[k].tool = name
                            /\ \A m \in starts : log[m].tool = name => m <= k
      IN /\ DOMAIN results[r] = {log[k].tool : k \in starts}
         /\ Cardinality(DOMAIN results[r]) <= Cardinality(starts)
         /\ Cardinality(DOMAIN results[r]) = Cardinality(starts)
              <=> \A k, m \in starts : log[k].tool = log[m].tool => k = m
         /\ \A name \in DOMAIN results[r] :
              ResultOf(name, results[r][name], InvocationCalls(log, LastOf(name)))

\* a request is done that ran error-spike twice: the first run returned a
\* row, the second failed, and the one entry holds the failure
C20_Witness ==
  /\ pc[1] = "done"
  /\ Len(store_log[1]) = 2
  /\ store_log[1][1].tool = "detect_errors" /\ store_log[1][2].tool = "detect_errors"
  /\ ~store_log[1][1].raised /\ store_log[1][2].raised
  /\ DOMAIN results[1] = {"detect_errors"}
  /\ ~results[1]["detect_errors"].success

====
